---- MODULE Spec2Model ----
(***************************************************************************)
(* Flash access layer of the bootloader (Src/flash.c): FLASH_Init,         *)
(* flash_erase, flash_write and flash_jump_to_app, modelled one HAL call   *)
(* per step.  The vendor HAL is the environment: every HAL primitive       *)
(* reports an outcome chosen nondeterministically.                         *)
(***************************************************************************)
EXTENDS Integers, Sequences, FiniteSets, TLC

(* ---------------- bounds of the model ---------------- *)
\* longest source buffer (in 32-bit words) handed to flash_write
MaxLen == 6

(* ---------------- memory map ---------------- *)
FLASH_START_ADRESS == 134217728
FLASH_PAGE_NBPERBANK == 256
FLASH_BANK_NUMBER == 2
USER_FLASH_END_ADDRESS == 134742016
\* page size of the part (HAL constant, 0x800)
FLASH_PAGE_SIZE == 2048
\* two equal banks of FLASH_PAGE_NBPERBANK pages
FLASH_SIZE == FLASH_BANK_NUMBER * FLASH_PAGE_NBPERBANK * FLASH_PAGE_SIZE
\* base of the application image (flash.h, 0x08008000)
FLASH_APP_START_ADDRESS == 134250496
FLASH_BANK_1 == 1
FLASH_BANK_2 == 2
\* first address past the flash array
FlashEnd == FLASH_START_ADRESS + FLASH_SIZE
\* first address of bank 2
Bank2Start == FLASH_START_ADRESS + FLASH_PAGE_NBPERBANK * FLASH_PAGE_SIZE

(* ---------------- status codes ---------------- *)
\* flash_status is a bit mask; a status is the set of its error bits
FLASH_OK == {}
FLASH_ERROR_WRITE == {"WRITE"}
FLASH_ERROR_READBACK == {"READBACK"}
FLASH_ERROR == {"ERROR"}
HAL_OK == "HAL_OK"
HAL_ERROR == "HAL_ERROR"
HalStatus(ok) == IF ok THEN HAL_OK ELSE HAL_ERROR
StatusOr_And(st, e) == st \cap e
\* status |= e
StatusOr(st, e) == st \cup e

(* ---------------- data ---------------- *)
\* contents of a 32-bit word of the source buffer / of flash
WordValues == {0, 1}
\* an erased flash word reads 0xFFFFFFFF (all bits set, written as -1)
ErasedWord == 0 - 1
\* a 64-bit double-word is <<low word, high word>> (little endian)
DWords == WordValues \X WordValues
\* value of entered while control is still in the bootloader (no word value)
NotEntered == ErasedWord - 1
\* the double-word of an erased location
ErasedDWord == <<ErasedWord, ErasedWord>>
\* word j (from 1) of the buffer; past its end memory holds something else,
\* which no run of the loop ever reads
WordAt(d, j) == IF j \in DOMAIN d THEN d[j] ELSE 0
SrcDWord_Stride1(d, k) == <<WordAt(d, k + 1), WordAt(d, k + 2)>>
\* *((uint64_t *)(data + 2*i))
SrcDWord(d, k) == <<WordAt(d, 2 * k + 1), WordAt(d, 2 * k + 2)>>
\* the source buffers: every word sequence of length 0..MaxLen
Buffers == UNION {[1..n -> WordValues] : n \in 0..MaxLen}

(* ---------------- uint32 arithmetic of flash_erase ---------------- *)
\* 2^32 / FLASH_PAGE_SIZE, the page count a wrapped subtraction adds
WrapPages == (2^30 \div FLASH_PAGE_SIZE) * 4
\* NbrOfPages = (FLASH_START_ADRESS + FLASH_SIZE - address) / FLASH_PAGE_SIZE
\* in uint32: a negative difference wraps by 2^32, a multiple of the page size
PageCount(a) ==
  LET diff == FlashEnd - a
  IN  IF diff >= 0 THEN diff \div FLASH_PAGE_SIZE
      ELSE (diff \div FLASH_PAGE_SIZE) + WrapPages
\* pEraseInit.NbPages of the bank-1 call
Bank1NbPages(n) == n % FLASH_PAGE_NBPERBANK
FirstPage_FromZero(nb) == 0
\* pEraseInit.Page = FLASH_PAGE_NBPERBANK - pEraseInit.NbPages
FirstPage(nb) == FLASH_PAGE_NBPERBANK - nb
\* the pages one HAL_FLASHEx_Erase call covers when cnt of them get erased
PagesOf(bank, page, cnt) == {<<bank, p>> : p \in page..(page + cnt - 1)}
\* the <<bank, page>> an address of the flash array lies in
PageOfAddr(a) ==
  LET idx == (a - FLASH_START_ADRESS) \div FLASH_PAGE_SIZE
  IN  <<(idx \div FLASH_PAGE_NBPERBANK) + 1, idx % FLASH_PAGE_NBPERBANK>>
\* how many pages a failing HAL_FLASHEx_Erase erased before the faulty one
FailPrefixes(nb) == {0} \cup {k \in {1, nb - 1} : 0 < k /\ k < nb}

(* ---------------- inputs ---------------- *)
PageAligned == {FLASH_START_ADRESS + p * FLASH_PAGE_SIZE :
                  p \in 0..(FLASH_BANK_NUMBER * FLASH_PAGE_NBPERBANK - 1)}
EraseAddresses ==
  PageAligned \cup
  { Bank2Start - 4, Bank2Start + 4, Bank2Start - FLASH_PAGE_SIZE + 8,
    FlashEnd - 4, FlashEnd, FlashEnd + FLASH_PAGE_SIZE, 0 }
WriteAddresses ==
  { FLASH_APP_START_ADDRESS,
    USER_FLASH_END_ADDRESS - 24, USER_FLASH_END_ADDRESS - 16,
    USER_FLASH_END_ADDRESS - 12, USER_FLASH_END_ADDRESS - 8,
    USER_FLASH_END_ADDRESS - 4, USER_FLASH_END_ADDRESS,
    USER_FLASH_END_ADDRESS + 8 }

VARIABLES
  op,          \* the driver function called, "none" between calls
  pc,          \* position inside it
  locked,      \* LOCK bit of the flash controller
  log,         \* HAL calls made by the call, in order
  address,     \* parameter / running destination address
  data,        \* source buffer of flash_write
  length,      \* its length in words
  i,           \* loop index of flash_write
  NbrOfPages,  \* local of flash_erase
  hal_status,  \* local of flash_erase
  status,      \* local of flash_erase / flash_write, the value returned
  erased,      \* pages erased by the call
  programmed,  \* <<address, stored double-word>> programmed by the call
  vector,      \* the 8 bytes at FLASH_APP_START_ADDRESS: <<MSP, entry>>
  jump_to_app, \* local of flash_jump_to_app
  msp,         \* main stack pointer
  entered      \* address control was transferred to, NotEntered before

vars == <<op, pc, locked, log, address, data, length, i, NbrOfPages,
          hal_status, status, erased, programmed, vector, jump_to_app,
          msp, entered>>

locals == <<address, data, length, i, NbrOfPages, hal_status>>

Init ==
  /\ op = "none"
  /\ pc = "idle"
  /\ locked = TRUE
  /\ log = <<>>
  /\ address = 0
  /\ data = <<>>
  /\ length = 0
  /\ i = 0
  /\ NbrOfPages = 0
  /\ hal_status = HAL_OK
  /\ status = FLASH_OK
  /\ erased = {}
  /\ programmed = {}
  /\ vector \in WordValues \X WordValues
  /\ jump_to_app = 0
  /\ msp = 0
  /\ entered = NotEntered

(* ---------------- HAL primitives ---------------- *)
\* HAL_FLASH_Unlock: clears the LOCK bit when the key sequence is accepted
HAL_FLASH_Unlock(ok) ==
  /\ locked' = (locked /\ ~ok)
  /\ log' = Append(log, <<"Unlock", HalStatus(ok)>>)

\* HAL_FLASH_Lock: sets the LOCK bit
HAL_FLASH_Lock ==
  /\ locked' = TRUE
  /\ log' = Append(log, <<"Lock">>)

\* HAL_FLASHEx_Erase(&pEraseInit, &PageError): erases the NbPages pages
\* from Page in bank; a failing call stops at the faulty page, after k pages
HAL_FLASHEx_Erase(bank, page, nb, ok, k) ==
  LET done == PagesOf(bank, page, IF ok THEN nb ELSE k)
  IN  /\ erased' = erased \cup done
      /\ vector' = IF PageOfAddr(FLASH_APP_START_ADDRESS) \in done
                   THEN ErasedDWord ELSE vector
      /\ log' = Append(log, <<"Erase", bank, page, nb, HalStatus(ok), locked>>)

\* a call is made between calls, by the single caller
Enter(f) ==
  /\ pc = "idle"
  /\ op' = f
  /\ UNCHANGED <<log, erased, programmed>>

(* ---------------- FLASH_Init ---------------- *)
CallInit ==
  /\ Enter("FLASH_Init")
  /\ pc' = "unlock"
  /\ UNCHANGED <<locked, locals, status, vector, jump_to_app, msp, entered>>

InitUnlock ==
  /\ op = "FLASH_Init" /\ pc = "unlock"
  /\ \E refused \in BOOLEAN : HAL_FLASH_Unlock(~refused)
  /\ pc' = "clear_flags"
  /\ UNCHANGED <<op, locals, status, erased, programmed, vector,
                 jump_to_app, msp, entered>>

\* __HAL_FLASH_CLEAR_FLAG(...): a register write, its effect is not checked
InitClearFlags ==
  /\ op = "FLASH_Init" /\ pc = "clear_flags"
  /\ \E ok \in BOOLEAN : log' = Append(log, <<"ClearFlags", HalStatus(ok)>>)
  /\ pc' = "lock"
  /\ UNCHANGED <<op, locked, locals, status, erased, programmed, vector,
                 jump_to_app, msp, entered>>

InitLock_Unlocks ==
  /\ op = "FLASH_Init" /\ pc = "lock"
  /\ HAL_FLASH_Unlock(TRUE)
  /\ pc' = "done"
  /\ UNCHANGED <<op, locals, status, erased, programmed, vector,
                 jump_to_app, msp, entered>>

InitLock ==
  /\ op = "FLASH_Init" /\ pc = "lock"
  /\ HAL_FLASH_Lock
  /\ pc' = "done"
  /\ UNCHANGED <<op, locals, status, erased, programmed, vector,
                 jump_to_app, msp, entered>>

(* ---------------- flash_erase ---------------- *)
CallErase ==
  /\ Enter("flash_erase")
  /\ \E a \in EraseAddresses : address' = a
  /\ NbrOfPages' = 0
  /\ hal_status' = HAL_OK
  /\ pc' = "unlock"
  /\ UNCHANGED <<locked, data, length, i, status, vector, jump_to_app,
                 msp, entered>>

SpansBanks_Inclusive(n) == n >= FLASH_PAGE_NBPERBANK
\* if(NbrOfPages > FLASH_PAGE_NBPERBANK)
SpansBanks(n) == n > FLASH_PAGE_NBPERBANK

\* HAL_FLASH_Unlock, the page count, status = FLASH_ERROR, the bank test
EraseUnlock ==
  /\ op = "flash_erase" /\ pc = "unlock"
  /\ \E refused \in BOOLEAN : HAL_FLASH_Unlock(~refused)
  /\ NbrOfPages' = PageCount(address)
  /\ status' = FLASH_ERROR
  /\ pc' = IF SpansBanks(PageCount(address)) THEN "bank1" ELSE "bank2"
  /\ UNCHANGED <<op, address, data, length, i, hal_status, erased,
                 programmed, vector, jump_to_app, msp, entered>>

AfterBank1_NoTest(hs) == "bank2"
AfterBank1_EarlyReturn(hs) == IF hs = HAL_OK THEN "bank2" ELSE "done"
\* if(hal_status == HAL_OK) before the bank-2 call
AfterBank1(hs) == IF hs = HAL_OK THEN "bank2" ELSE "lock"

EraseBank1 ==
  /\ op = "flash_erase" /\ pc = "bank1"
  /\ LET nb == Bank1NbPages(NbrOfPages)
     IN  \E ok \in BOOLEAN : \E k \in FailPrefixes(nb) :
           /\ HAL_FLASHEx_Erase(FLASH_BANK_1, FirstPage(nb), nb, ok, k)
           /\ hal_status' = HalStatus(ok)
  /\ NbrOfPages' = FLASH_PAGE_NBPERBANK
  /\ pc' = AfterBank1(hal_status')
  /\ UNCHANGED <<op, locked, address, data, length, i, status, programmed,
                 jump_to_app, msp, entered>>

EraseBank2 ==
  /\ op = "flash_erase" /\ pc = "bank2"
  /\ LET nb == NbrOfPages
     IN  \E ok \in BOOLEAN : \E k \in FailPrefixes(nb) :
           /\ HAL_FLASHEx_Erase(FLASH_BANK_2, FirstPage(nb), nb, ok, k)
           /\ hal_status' = HalStatus(ok)
  /\ pc' = "lock"
  /\ UNCHANGED <<op, locked, address, data, length, i, NbrOfPages, status,
                 programmed, jump_to_app, msp, entered>>

\* if (HAL_OK == hal_status) status = FLASH_OK; HAL_FLASH_Lock(); return
EraseLock ==
  /\ op = "flash_erase" /\ pc = "lock"
  /\ status' = IF hal_status = HAL_OK THEN FLASH_OK ELSE status
  /\ HAL_FLASH_Lock
  /\ pc' = "done"
  /\ UNCHANGED <<op, locals, erased, programmed, vector, jump_to_app,
                 msp, entered>>

(* ---------------- flash_write ---------------- *)
CallWrite ==
  /\ Enter("flash_write")
  /\ \E a \in WriteAddresses : address' = a
  /\ \E d \in Buffers : data' = d /\ length' = Len(d)
  /\ i' = 0
  /\ status' = FLASH_OK
  /\ pc' = "unlock"
  /\ UNCHANGED <<locked, NbrOfPages, hal_status, vector, jump_to_app,
                 msp, entered>>

WriteUnlock ==
  /\ op = "flash_write" /\ pc = "unlock"
  /\ \E refused \in BOOLEAN : HAL_FLASH_Unlock(~refused)
  /\ pc' = "loop"
  /\ UNCHANGED <<op, locals, status, erased, programmed, vector,
                 jump_to_app, msp, entered>>

LoopCond_NoBound(k, len, a) == k < len \div 2
LoopCond_Inclusive(k, len, a) ==
  k <= len \div 2 /\ a <= USER_FLASH_END_ADDRESS - 8
\* (i < length/2) && (address <= (USER_FLASH_END_ADDRESS-8))
LoopCond(k, len, a) ==
  k < len \div 2 /\ a <= USER_FLASH_END_ADDRESS - 8

ProgramAccepted_Always(hs) == TRUE
\* HAL_FLASH_Program(...) == HAL_OK
ProgramAccepted(hs) == hs = HAL_OK

ReadBackDiffers_Never(rb, src) == FALSE
\* *(uint64_t*)address != *(uint64_t *)(data+2*i)
ReadBackDiffers(rb, src) == rb # src

\* HAL_FLASH_Program(FLASH_TYPEPROGRAM_DOUBLEWORD, a, src): when the HAL
\* reports HAL_OK the location has been programmed and reads rb afterwards
HAL_FLASH_Program(a, ok, rb) ==
  /\ programmed' = IF ok THEN programmed \cup {<<a, rb>>} ELSE programmed
  /\ vector' = IF ok /\ a = FLASH_APP_START_ADDRESS THEN rb ELSE vector

\* one iteration of the loop: the programme call, and when it is accepted
\* the read-back comparison
WriteProgram ==
  /\ op = "flash_write" /\ pc = "loop"
  /\ LoopCond(i, length, address)
  /\ LET src == SrcDWord(data, i)
     IN  \E ok \in BOOLEAN : \E rb \in DWords :
           /\ HAL_FLASH_Program(address, ok, rb)
           /\ IF ProgramAccepted(HalStatus(ok))
              THEN /\ log' = log \o <<
                        <<"Program", address, src, HalStatus(ok), locked>>,
                        <<"ReadBack", address, rb, src>> >>
                   /\ IF ReadBackDiffers(rb, src)
                      THEN /\ status' = StatusOr(status, FLASH_ERROR_READBACK)
                           /\ pc' = "lock"
                           /\ UNCHANGED <<address, i>>
                      ELSE /\ address' = address + 8
                           /\ i' = i + 1
                           /\ pc' = "loop"
                           /\ UNCHANGED status
              ELSE /\ log' = Append(log,
                        <<"Program", address, src, HalStatus(ok), locked>>)
                   /\ status' = StatusOr(status, FLASH_ERROR_WRITE)
                   /\ pc' = "lock"
                   /\ UNCHANGED <<address, i>>
  /\ UNCHANGED <<op, locked, data, length, NbrOfPages, hal_status, erased,
                 jump_to_app, msp, entered>>

\* the loop is left (condition false, or break); HAL_FLASH_Lock(); return
WriteLock ==
  /\ op = "flash_write"
  /\ \/ pc = "lock"
     \/ pc = "loop" /\ ~LoopCond(i, length, address)
  /\ HAL_FLASH_Lock
  /\ pc' = "done"
  /\ UNCHANGED <<op, locals, status, erased, programmed, vector,
                 jump_to_app, msp, entered>>

(* ---------------- return to the caller ---------------- *)
\* the call has returned (pc = "done": its status and effects are those of
\* the call); the caller goes on and the frame of the call is gone
Return ==
  /\ pc = "done"
  /\ pc' = "idle"
  /\ op' = "none"
  /\ log' = <<>>
  /\ address' = 0
  /\ data' = <<>>
  /\ length' = 0
  /\ i' = 0
  /\ NbrOfPages' = 0
  /\ hal_status' = HAL_OK
  /\ status' = FLASH_OK
  /\ erased' = {}
  /\ programmed' = {}
  /\ UNCHANGED <<locked, vector, jump_to_app, msp, entered>>

(* ---------------- flash_jump_to_app ---------------- *)
EntryWord_Offset0(v) == v[1]
\* *(volatile uint32_t*)(FLASH_APP_START_ADDRESS + 4u)
EntryWord(v) == v[2]
\* *(volatile uint32_t*)FLASH_APP_START_ADDRESS
StackWord(v) == v[1]

\* jump_to_app = *(volatile uint32_t*)(FLASH_APP_START_ADDRESS + 4)
CallJump ==
  /\ Enter("flash_jump_to_app")
  /\ jump_to_app' = EntryWord(vector)
  /\ pc' = "deinit"
  /\ UNCHANGED <<locked, locals, status, vector, msp, entered>>

JumpDeInit ==
  /\ op = "flash_jump_to_app" /\ pc = "deinit"
  /\ log' = Append(log, <<"DeInit">>)
  /\ pc' = "set_msp"
  /\ UNCHANGED <<op, locked, locals, status, erased, programmed, vector,
                 jump_to_app, msp, entered>>

\* __set_MSP(*(volatile uint32_t*)FLASH_APP_START_ADDRESS)
JumpSetMSP ==
  /\ op = "flash_jump_to_app" /\ pc = "set_msp"
  /\ msp' = StackWord(vector)
  /\ log' = Append(log, <<"SetMSP", StackWord(vector)>>)
  /\ pc' = "branch"
  /\ UNCHANGED <<op, locked, locals, status, erased, programmed, vector,
                 jump_to_app, entered>>

JumpBranch_Returns ==
  /\ op = "flash_jump_to_app" /\ pc = "branch"
  /\ entered' = jump_to_app
  /\ log' = Append(log, <<"Jump", jump_to_app>>)
  /\ pc' = "done"
  /\ UNCHANGED <<op, locked, locals, status, erased, programmed, vector,
                 jump_to_app, msp>>

\* jump_to_app(): control leaves the driver
JumpBranch ==
  /\ op = "flash_jump_to_app" /\ pc = "branch"
  /\ entered' = jump_to_app
  /\ log' = Append(log, <<"Jump", jump_to_app>>)
  /\ pc' = "jumped"
  /\ UNCHANGED <<op, locked, locals, status, erased, programmed, vector,
                 jump_to_app, msp>>

Next ==
  \/ CallInit \/ InitUnlock \/ InitClearFlags \/ InitLock
  \/ CallErase \/ EraseUnlock \/ EraseBank1 \/ EraseBank2 \/ EraseLock
  \/ CallWrite \/ WriteUnlock \/ WriteProgram \/ WriteLock
  \/ Return
  \/ CallJump \/ JumpDeInit \/ JumpSetMSP \/ JumpBranch

Spec == Init /\ [][Next]_vars

TypeOK ==
  /\ pc \in {"idle", "done", "unlock", "clear_flags", "lock", "bank1", "bank2",
             "loop", "deinit", "set_msp", "branch", "jumped"}
  /\ locked \in BOOLEAN
  /\ status \subseteq {"WRITE", "READBACK", "ERROR"}

(* ================= properties ================= *)
\* the entries of the log made by the HAL primitive named h
Calls(h) == {j \in 1..Len(log) : log[j][1] = h}
\* the erase calls of the log made for one bank
BankCalls(b) == {j \in Calls("Erase") : log[j][2] = b}
\* every HAL_FLASHEx_Erase call of the log reported HAL_OK
AllErasesOk == \A j \in Calls("Erase") : log[j][5] = HAL_OK
\* first address of a page
PageBase(b, p) ==
  FLASH_START_ADRESS + ((b - 1) * FLASH_PAGE_NBPERBANK + p) * FLASH_PAGE_SIZE
AllPages == (1..FLASH_BANK_NUMBER) \X (0..(FLASH_PAGE_NBPERBANK - 1))
\* the pages of the flash array from address a to the end of flash
PagesFrom(a) == {pg \in AllPages : PageBase(pg[1], pg[2]) >= a}
InBank1(a) == FLASH_START_ADRESS <= a /\ a < Bank2Start
InBank2(a) == Bank2Start <= a /\ a < FlashEnd
IsPageAligned(a) == a % FLASH_PAGE_SIZE = 0
\* flash_erase has returned
ErasedDone == op = "flash_erase" /\ pc = "done"

\* C1: a flash_erase of a page-aligned address in bank 2 whose erase calls
\* all succeed has erased exactly the pages from the address to the end of
\* flash, i.e. bank-2 pages 256-N .. 255 for N remaining pages, and returns
\* FLASH_OK.
C1_EraseBank2Exact ==
  (ErasedDone /\ InBank2(address) /\ IsPageAligned(address) /\ AllErasesOk)
    => /\ erased = PagesFrom(address)
       /\ LET N == (FlashEnd - address) \div FLASH_PAGE_SIZE
          IN  erased = {<<FLASH_BANK_2, p>> :
                          p \in (FLASH_PAGE_NBPERBANK - N)..
                                (FLASH_PAGE_NBPERBANK - 1)}
       /\ status = FLASH_OK

C1_Witness ==
  /\ ErasedDone /\ AllErasesOk
  /\ address = Bank2Start + 3 * FLASH_PAGE_SIZE
  /\ <<FLASH_BANK_2, 3>> \in erased
  /\ status = FLASH_OK

\* C2: a flash_erase of a page-aligned address in bank 1, the flash base
\* included, whose erase calls all succeed has erased every page from the
\* address to the end of flash.
C2_EraseBank1ToEnd ==
  (ErasedDone /\ InBank1(address) /\ IsPageAligned(address) /\ AllErasesOk)
    => erased = PagesFrom(address)

\* C3: flash_erase returns FLASH_OK exactly when every erase call it made
\* reported success, FLASH_ERROR otherwise; after a failed bank-1 call no
\* bank-2 call is made; each bank gets at most one call.
C3_EraseStatus ==
  op = "flash_erase" =>
    /\ Cardinality(BankCalls(FLASH_BANK_1)) <= 1
    /\ Cardinality(BankCalls(FLASH_BANK_2)) <= 1
    /\ (\E j \in BankCalls(FLASH_BANK_1) : log[j][5] # HAL_OK)
         => BankCalls(FLASH_BANK_2) = {}
    /\ pc = "done" =>
         /\ status = FLASH_OK <=> AllErasesOk
         /\ status # FLASH_OK => status = FLASH_ERROR
         /\ Calls("Erase") # {}

C3_Witness ==
  /\ ErasedDone
  /\ \E j \in BankCalls(FLASH_BANK_1) : log[j][5] = HAL_ERROR
  /\ BankCalls(FLASH_BANK_2) = {}
  /\ status = FLASH_ERROR

WriteDone == op = "flash_write" /\ pc = "done"
LastSlot == USER_FLASH_END_ADDRESS - 8

\* C4: flash_write never calls the programme primitive for a destination
\* above USER_FLASH_END_ADDRESS - 8; the destinations only grow (no wrap);
\* and a call that returns with source double-words left and no error has
\* stopped because the destination passed that last slot.
C4_WriteStopsAtBound ==
  op = "flash_write" =>
    /\ \A j \in Calls("Program") : log[j][2] <= LastSlot
    /\ \A j, k \in Calls("Program") : j < k => log[j][2] < log[k][2]
    /\ (pc = "done" /\ status = FLASH_OK /\ i < length \div 2)
         => address > LastSlot

C4_Witness ==
  /\ WriteDone /\ status = FLASH_OK
  /\ i < length \div 2
  /\ \E j \in Calls("Program") : log[j][2] = LastSlot

\* C5: when the read-back of a programmed double-word differs from the
\* source double-word, flash_write makes no further programme call and its
\* status is FLASH_ERROR_READBACK (not FLASH_ERROR_WRITE).
C5_ReadBackMismatch ==
  op = "flash_write" =>
    \A j \in Calls("ReadBack") :
      log[j][3] # log[j][4] =>
        /\ \A k \in Calls("Program") : k < j
        /\ status = FLASH_ERROR_READBACK

C5_Witness ==
  /\ WriteDone
  /\ Cardinality(Calls("Program")) = 2
  /\ \E j \in Calls("ReadBack") : log[j][3] # log[j][4]
  /\ length \div 2 >= 3 /\ address + 8 <= LastSlot
  /\ status = FLASH_ERROR_READBACK

\* C6: when the programme primitive reports failure for a double-word,
\* flash_write does no read-back comparison for it, makes no further
\* programme call and its status is FLASH_ERROR_WRITE (not
\* FLASH_ERROR_READBACK).
C6_ProgramFailure ==
  op = "flash_write" =>
    \A j \in Calls("Program") :
      log[j][4] # HAL_OK =>
        /\ \A k \in Calls("Program") \cup Calls("ReadBack") : k <= j
        /\ status = FLASH_ERROR_WRITE

C6_Witness ==
  /\ WriteDone
  /\ Cardinality(Calls("Program")) = 1
  /\ \E j \in Calls("Program") : log[j][4] = HAL_ERROR
  /\ length \div 2 >= 2 /\ address + 8 <= LastSlot
  /\ programmed = {}
  /\ status = FLASH_ERROR_WRITE

\* C7: flash_erase and flash_write call HAL_FLASH_Unlock exactly once, as
\* their first HAL call, and HAL_FLASH_Lock exactly once, as their last,
\* and the controller is locked when they return, on every exit path.
C7_UnlockOnceLockOnce ==
  op \in {"flash_erase", "flash_write"} =>
    /\ pc # "unlock" => Calls("Unlock") = {1}
    /\ pc # "done" => Calls("Lock") = {}
    /\ pc = "done" => /\ locked
                      /\ Calls("Lock") = {Len(log)}

C7_Witness ==
  /\ ErasedDone
  /\ log[1] = <<"Unlock", HAL_OK>>
  /\ \E j \in BankCalls(FLASH_BANK_1) : log[j][5] = HAL_ERROR
  /\ locked

C9_JumpTarget ==
  pc = "jumped" =>
    /\ entered = vector[2]
    /\ msp = vector[1]
    /\ log = << <<"DeInit">>, <<"SetMSP", vector[1]>>,
                <<"Jump", vector[2]>> >>

C9_Witness ==
  /\ pc = "jumped"
  /\ vector[1] # vector[2]
  /\ entered = vector[2] /\ msp = vector[1]

\* C10: flash_write with length 0 makes no programme call, changes no
\* flash location and returns FLASH_OK.
C10_ZeroLength ==
  (op = "flash_write" /\ length = 0) =>
    /\ Calls("Program") = {}
    /\ programmed = {}
    /\ erased = {}
    /\ pc = "done" => status = FLASH_OK

C10_Witness ==
  /\ WriteDone /\ length = 0
  /\ address <= LastSlot
  /\ status = FLASH_OK

Jumped == entered # NotEntered

ProgramCalls == SelectSeq(log, LAMBDA e : e[1] = "Program")
\* the address flash_write was called with: the destination has advanced by
\* 8 for each of the i double-words done
WriteStart == address - 8 * i
\* the double-word slots from address a up to the last valid slot
SlotsUpTo(a) == IF a > LastSlot THEN 0 ELSE (LastSlot - a) \div 8 + 1
MinOf(x, y) == IF x <= y THEN x ELSE y
\* every programme call was accepted and every read-back matched
AllWritesOk ==
  /\ \A j \in Calls("Program") : log[j][4] = HAL_OK
  /\ \A j \in Calls("ReadBack") : log[j][3] = log[j][4]

\* C13: the k-th programme call of flash_write (k = 0, 1, ...) targets
\* address + 8*k with the double-word made of data words 2k and 2k+1; when
\* all programme calls succeed and all read-backs match, the call returns
\* with exactly the first min(length/2, slots up to the bound) slots from
\* address holding their source double-words and nothing else programmed.
C13_WritePlacement ==
  op = "flash_write" =>
    /\ \A k \in 1..Len(ProgramCalls) :
         /\ ProgramCalls[k][2] = WriteStart + 8 * (k - 1)
         /\ ProgramCalls[k][3] = <<data[2 * k - 1], data[2 * k]>>
    /\ (pc = "done" /\ AllWritesOk) =>
         LET n == MinOf(length \div 2, SlotsUpTo(WriteStart))
         IN  /\ i = n
             /\ programmed =
                  {<<WriteStart + 8 * k, <<data[2 * k + 1], data[2 * k + 2]>> >> :
                     k \in 0..(n - 1)}
             /\ erased = {}

C13_Witness ==
  /\ WriteDone /\ AllWritesOk
  /\ Len(ProgramCalls) = 3
  /\ data[1] # data[3] /\ data[2] # data[4] /\ data[3] # data[5]
  /\ Cardinality(programmed) = 3

\* C14: flash_write returns FLASH_OK exactly when none of its programme
\* calls failed and none of its read-backs mismatched, FLASH_ERROR_WRITE
\* or FLASH_ERROR_READBACK otherwise; source words left unwritten (stop at
\* the address bound, odd length) do not change the result.
C14_WriteStatus ==
  WriteDone =>
    /\ status = FLASH_OK <=> AllWritesOk
    /\ status \in {FLASH_OK, FLASH_ERROR_WRITE, FLASH_ERROR_READBACK}

\* odd length, room left below the bound: the last word is not programmed
C14_Witness ==
  /\ WriteDone /\ status = FLASH_OK
  /\ length % 2 = 1 /\ length >= 3
  /\ address <= LastSlot
  /\ 2 * Cardinality(programmed) = length - 1

\* the controller is locked whenever no driver function is running, and
\* all through flash_jump_to_app up to and after the transfer of control
LockedWhenIdle ==
  (pc \in {"idle", "done"} \/ op = "flash_jump_to_app") => locked

\* C15: in every sequence of driver calls from a locked controller, with
\* any HAL outcomes, each page-erase and each programme primitive is called
\* with the controller unlocked, and the controller is locked whenever no
\* driver function is running, the moment of the jump included.
C15_PrimitivesOnlyUnlocked ==
  /\ \A j \in Calls("Erase") : log[j][6] = FALSE
  /\ \A j \in Calls("Program") : log[j][5] = FALSE
  /\ LockedWhenIdle

====
